---- MODULE Spec2Model ----
(***************************************************************************)
(* Model of the FastF1 MCP server's two tools (mcp_f1/server/tools/        *)
(* analysis.py): compare_qualifying_laps and visualize_tyre_strategy, with *)
(* the lap-time formatting and the tyre-stint segmentation they contain.   *)
(*                                                                         *)
(* Text is modelled as a sequence of one-character strings, so that a      *)
(* prefix, a padding width or a digit is something a check can look at.    *)
(* Python floats are modelled as IEEE-754 binary64 values: a 53-bit        *)
(* significand (a sequence of bits, most significant first) and a binary   *)
(* exponent, with round-to-nearest-even after each operation.              *)
(***************************************************************************)
EXTENDS Integers, Sequences, FiniteSets, TLC

(***************************************************************************)
(* Bounds of the model.                                                    *)
(***************************************************************************)
\* lap times are drawn from base + 0..MaxMs milliseconds, for each base
MaxMs == 1100
\* a driver's lap records: at most MaxRecords of them, lap numbers 1..MaxLapNumber
MaxRecords == 3
MaxLapNumber == 4
\* no tool is called once MaxFigures figures are open in the process
MaxFigures == 2

(***************************************************************************)
(* Text.                                                                   *)
(***************************************************************************)
Digits == <<"0", "1", "2", "3", "4", "5", "6", "7", "8", "9">>

RECURSIVE IntStr(_)
\* str(n) / f"{n}" of a non-negative int: its decimal digits, no padding
IntStr(n) == IF n < 10 THEN <<Digits[n + 1]>>
             ELSE IntStr(n \div 10) \o <<Digits[(n % 10) + 1]>>

RECURSIVE ZeroPad(_, _)
\* f"{n:0wd}": zeros on the left up to a MINIMUM width of w
ZeroPad(s, w) == IF Len(s) >= w THEN s ELSE ZeroPad(<<"0">> \o s, w)

NoTimeText == <<"N", "o", " ", "T", "i", "m", "e">>
NoneText == <<"N", "o", "n", "e">>
NaTText == <<"N", "a", "T">>

(***************************************************************************)
(* Lap-time values as the provider hands them over: a pandas Timedelta of  *)
(* ms whole milliseconds and us further microseconds, the missing value    *)
(* NaT of a timedelta column, Python's None, or a plain string.            *)
(***************************************************************************)
Timedelta(ms, us) == [kind |-> "Timedelta", ms |-> ms, us |-> us]
NaT == [kind |-> "NaT"]
None == [kind |-> "None"]
Str(text) == [kind |-> "str", text |-> text]

\* hasattr(lap_time, 'total_seconds'): Timedelta and NaT both have the method
HasTotalSeconds(v) == v.kind \in {"Timedelta", "NaT"}

\* str(lap_time) for the values that reach it
StrOf(v) == CASE v.kind = "None" -> NoneText
              [] v.kind = "NaT" -> NaTText
              [] v.kind = "str" -> v.text
              [] OTHER -> <<"T", "i", "m", "e", "d", "e", "l", "t", "a">>

(***************************************************************************)
(* binary64 arithmetic of  lap_time.total_seconds() * 1000.                *)
(***************************************************************************)
\* the 8 binary digits of a byte, most significant first
ByteBits(c) == <<(c \div 128) % 2, (c \div 64) % 2, (c \div 32) % 2, (c \div 16) % 2,
                 (c \div 8) % 2, (c \div 4) % 2, (c \div 2) % 2, c % 2>>

\* the byte that 8 binary digits spell
ByteVal(b) == 128 * b[1] + 64 * b[2] + 32 * b[3] + 16 * b[4]
              + 8 * b[5] + 4 * b[6] + 2 * b[7] + b[8]

\* a bit sequence without its leading zeros
Strip(b) == IF \A i \in 1..Len(b) : b[i] = 0 THEN <<>>
            ELSE SubSeq(b, CHOOSE i \in 1..Len(b) :
                              b[i] = 1 /\ \A j \in 1..(i - 1) : b[j] = 0, Len(b))

\* a bit sequence with zeros in front up to a whole number of bytes
PadBytes(b) == [i \in 1..((8 - (Len(b) % 8)) % 8) |-> 0] \o b

\* binary digits of 0 <= n < 2^31, most significant first (none for 0)
Bits(n) == Strip([i \in 1..31 |-> (n \div 2^(31 - i)) % 2])

RECURSIVE FromBytes(_)
FromBytes(b) == IF b = <<>> THEN 0
                ELSE 256 * FromBytes(SubSeq(b, 1, Len(b) - 8))
                     + ByteVal(SubSeq(b, Len(b) - 7, Len(b)))

\* the integer a bit sequence of at most 31 bits spells
FromBits(b) == FromBytes(PadBytes(b))

\* b + 1 on a bit sequence; an all-ones input gains a leading 1
IncBits(b) ==
    IF \A i \in 1..Len(b) : b[i] = 1 THEN <<1>> \o [i \in 1..Len(b) |-> 0]
    ELSE LET j == CHOOSE i \in 1..Len(b) :
                      b[i] = 0 /\ \A k \in (i + 1)..Len(b) : b[k] = 1
         IN [i \in 1..Len(b) |-> IF i < j THEN b[i] ELSE IF i = j THEN 1 ELSE 0]

\* round the significant bits acc (leading bit 1, at least 54 of them,
\* worth 2^exp each unit of the last place; sticky: a nonzero remainder
\* below them) to 53 bits, ties to even
RoundNearestEven(acc, exp, sticky) ==
    LET drop == Len(acc) - 53
        sig == SubSeq(acc, 1, 53)
        guard == acc[54]
        rest == sticky \/ \E i \in 55..Len(acc) : acc[i] = 1
        up == guard = 1 /\ (rest \/ sig[53] = 1)
        sig1 == IF up THEN IncBits(sig) ELSE sig
    IN IF Len(sig1) = 54
       THEN [zero |-> FALSE, m |-> SubSeq(sig1, 1, 53), e |-> exp + drop + 1]
       ELSE [zero |-> FALSE, m |-> sig1, e |-> exp + drop]

RECURSIVE DivBits(_, _, _, _)
\* long division, a byte at a time: the binary expansion of acc + r/d
\* (r < d), extended until 54 significant bits are known; f counts the
\* fraction bits produced
DivBits(acc, r, d, f) ==
    IF Len(acc) >= 54 THEN [acc |-> acc, r |-> r, f |-> f]
    ELSE DivBits(Strip(acc \o ByteBits((256 * r) \div d)), (256 * r) % d, d, f + 8)

\* Timedelta.total_seconds(): the double nearest to the duration in seconds
TotalSeconds(v) ==
    LET q == v.ms \div 1000
        r == (v.ms % 1000) * 1000 + v.us
    IN IF q = 0 /\ r = 0 THEN [zero |-> TRUE, m |-> <<>>, e |-> 0]
       ELSE LET x == DivBits(Bits(q), r, 1000000, 0)
            IN RoundNearestEven(x.acc, -x.f, x.r # 0)

RECURSIVE MulBytes(_, _, _)
\* the bits of b * k for a whole number of bytes b and k < 2^20, a byte at
\* a time from the least significant (carry: from the bytes below)
MulBytes(b, k, carry) ==
    IF b = <<>> THEN Bits(carry)
    ELSE LET t == ByteVal(SubSeq(b, Len(b) - 7, Len(b))) * k + carry
         IN MulBytes(SubSeq(b, 1, Len(b) - 8), k, t \div 256) \o ByteBits(t % 256)

\* x * k in binary64, for an integer k with 2 <= k < 2^20
FloatMul(x, k) ==
    IF x.zero THEN x
    ELSE RoundNearestEven(Strip(MulBytes(PadBytes(x.m), k, 0)) \o <<0>>, x.e - 1, FALSE)

\* floor of a non-negative double below 2^31, as an integer
FloatFloor(x) ==
    IF x.zero \/ 53 + x.e <= 0 THEN 0
    ELSE FromBits(SubSeq(x.m, 1, 53 + x.e))

\* the whole part of  total_ms = lap_time.total_seconds() * 1000; the
\* float // and % of lines 99-101 are exact, so they see only this part
TotalMs(v) == FloatFloor(FloatMul(TotalSeconds(v), 1000))

(***************************************************************************)
(* The two formatters.  An outcome is a returned text or a raised          *)
(* exception.                                                              *)
(***************************************************************************)
Return(text) == [kind |-> "return", text |-> text]
Raise(exc) == [kind |-> "raise", exc |-> exc]

\* f"{minutes}:{seconds:02d}.{milliseconds:03d}" of lines 99-102 / 222-225
MinSecMs(total_ms) ==
    LET minutes == total_ms \div 60000
        seconds == (total_ms % 60000) \div 1000
        milliseconds == total_ms % 1000
    IN IntStr(minutes) \o <<":">> \o ZeroPad(IntStr(seconds), 2)
       \o <<".">> \o ZeroPad(IntStr(milliseconds), 3)

\* lines 98-102 on a value that has total_seconds: NaT.total_seconds() is
\* nan and int(nan) raises ValueError
FormatDuration(v) ==
    IF v.kind = "NaT" THEN Raise("ValueError")
    ELSE Return(MinSecMs(TotalMs(v)))

\* the legend helper, lines 96-103
format_lap_time(lap_time) ==
    IF HasTotalSeconds(lap_time) THEN FormatDuration(lap_time)
    ELSE Return(StrOf(lap_time))

\* the top-10 table's formatting, lines 218-229
FormatTableTime(lap_time) ==
    IF HasTotalSeconds(lap_time) /\ lap_time.kind # "None"
    THEN LET r == FormatDuration(lap_time)
         IN IF r.kind = "raise" THEN Return(StrOf(lap_time)) ELSE r
    ELSE IF lap_time.kind # "None" THEN Return(StrOf(lap_time))
         ELSE Return(NoTimeText)

\* the value the top-10 table formats, lines 205-216: the fastest lap's
\* LapTime when the driver has laps (has_laps), else the first of Q3, Q2, Q1
\* whose column is in the row and whose value "is not None", else 'No Time'
Absent == [kind |-> "absent"]
QPresent(cell) == cell.kind # "absent" /\ cell.kind # "None"
TableLapTime(has_laps, best, row) ==
    IF has_laps THEN best
    ELSE IF QPresent(row.Q3) THEN row.Q3
    ELSE IF QPresent(row.Q2) THEN row.Q2
    ELSE IF QPresent(row.Q1) THEN row.Q1
    ELSE Str(NoTimeText)

(***************************************************************************)
(* Tyre-stint segmentation, lines 323-344, and the bar total of lines      *)
(* 349-366.  A lap record is [LapNumber, Stint, Compound].                 *)
(***************************************************************************)
RECURSIVE SortByLapNumber(_)
\* driver_laps.sort_values('LapNumber'): ascending lap number
SortByLapNumber(laps) ==
    IF laps = <<>> THEN <<>>
    ELSE LET i == CHOOSE i \in 1..Len(laps) :
                      \A j \in 1..Len(laps) :
                          /\ laps[i].LapNumber <= laps[j].LapNumber
                          /\ (laps[i].LapNumber = laps[j].LapNumber => i <= j)
         IN <<laps[i]>> \o SortByLapNumber(SubSeq(laps, 1, i - 1)
                                             \o SubSeq(laps, i + 1, Len(laps)))

RECURSIVE SortedSet(_)
\* sorted(...): the members of a set of integers, ascending
SortedSet(S) == IF S = {} THEN <<>>
                ELSE LET x == CHOOSE x \in S : \A y \in S : x <= y
                     IN <<x>> \o SortedSet(S \ {x})

\* driver_laps[driver_laps['Stint'] == stint]: the rows of a stint, in order
StintLaps(laps, stint) == SelectSeq(laps, LAMBDA r : r.Stint = stint)

\* a stint counted from its first lap to its last, the last left out
LapsCountOffByOne(start_lap, end_lap) == end_lap - start_lap

\* laps_count = int(end_lap - start_lap + 1), line 332
LapsCount(start_lap, end_lap) == end_lap - start_lap + 1

\* a stint labelled with the compound of its last row instead of its first
StintEntryLastCompound(stint_laps) ==
    LET numbers == {stint_laps[i].LapNumber : i \in 1..Len(stint_laps)}
        start_lap == CHOOSE x \in numbers : \A y \in numbers : x <= y
        end_lap == CHOOSE x \in numbers : \A y \in numbers : x >= y
    IN [start_lap |-> start_lap,
        laps_count |-> LapsCount(start_lap, end_lap),
        compound |-> stint_laps[Len(stint_laps)].Compound]

\* one entry of stint_info, lines 328-339
StintEntry(stint_laps) ==
    LET numbers == {stint_laps[i].LapNumber : i \in 1..Len(stint_laps)}
        start_lap == CHOOSE x \in numbers : \A y \in numbers : x <= y
        end_lap == CHOOSE x \in numbers : \A y \in numbers : x >= y
    IN [start_lap |-> start_lap,
        laps_count |-> LapsCount(start_lap, end_lap),
        compound |-> stint_laps[1].Compound]

\* the rows grouped in the order the provider gave them, unsorted
OrderedLapsUnsorted(laps) == laps

\* the order in which the rows of one driver are grouped, line 324
OrderedLaps(laps) == SortByLapNumber(laps)

\* stint_info of one driver, lines 324-339
SegmentStints(laps) ==
    LET driver_laps == OrderedLaps(laps)
        stints == SortedSet({driver_laps[i].Stint : i \in 1..Len(driver_laps)})
    IN [k \in 1..Len(stints) |-> StintEntry(StintLaps(driver_laps, stints[k]))]

\* a bar whose total is the length of its last stint alone
BarTotalLastOnly(stints) == IF stints = <<>> THEN 0 ELSE stints[Len(stints)].laps_count

RECURSIVE BarTotal(_)
\* left_pos after the bars of one driver, lines 349-363: the total printed
\* in parentheses, and the sum that max_laps is taken over (line 380)
BarTotal(stints) == IF stints = <<>> THEN 0
                    ELSE BarTotal(SubSeq(stints, 1, Len(stints) - 1))
                         + stints[Len(stints)].laps_count

(***************************************************************************)
(* The texts the two tools return and the files they write.  Of a success  *)
(* report only the leading newline and the title line are kept as text     *)
(* (the box drawing around them is left out); its content is kept as data. *)
(***************************************************************************)
NoResultsStem ==
    <<"E", "r", "r", "o", "r", ":", " ", "N", "o", " ", "r", "e", "s", "u",
      "l", "t", "s", " ", "f", "o", "u", "n", "d", " ", "f", "o", "r", " ">>
InsufficientStem ==
    <<"E", "r", "r", "o", "r", ":", " ", "I", "n", "s", "u", "f", "f", "i",
      "c", "i", "e", "n", "t", " ", "d", "r", "i", "v", "e", "r", "s", " ",
      "i", "n", " ", "s", "e", "s", "s", "i", "o", "n", ".", " ", "F", "o",
      "u", "n", "d", " ">>
InsufficientTail ==
    <<",", " ", "n", "e", "e", "d", " ", "a", "t", " ", "l", "e", "a", "s",
      "t", " ", "3", ".">>
TelemetryStem ==
    <<"E", "r", "r", "o", "r", ":", " ", "C", "o", "u", "l", "d", " ", "n",
      "o", "t", " ", "e", "x", "t", "r", "a", "c", "t", " ", "t", "e", "l",
      "e", "m", "e", "t", "r", "y", " ", "f", "o", "r", " ", "3", " ", "d",
      "r", "i", "v", "e", "r", "s", ".", " ", "F", "o", "u", "n", "d", " ">>
AnalyzingStem ==
    <<"E", "r", "r", "o", "r", " ", "a", "n", "a", "l", "y", "z", "i", "n",
      "g", " ", "q", "u", "a", "l", "i", "f", "y", "i", "n", "g", " ", "l",
      "a", "p", "s", ":", " ">>
AnalyzingHints ==
    <<"\n", "\n", "P", "l", "e", "a", "s", "e", " ", "c", "h", "e", "c",
      "k", ":", "\n", "-", " ", "Y", "e", "a", "r", " ", "a", "n", "d",
      " ", "r", "a", "c", "e", " ", "n", "a", "m", "e", " ", "a", "r", "e",
      " ", "c", "o", "r", "r", "e", "c", "t", "\n", "-", " ", "S", "e",
      "s", "s", "i", "o", "n", " ", "t", "y", "p", "e", " ", "i", "s", " ",
      "v", "a", "l", "i", "d", " ", "(", "Q", ",", " ", "Q", "1", ",", " ",
      "Q", "2", ",", " ", "Q", "3", ")", "\n", "-", " ", "T", "e", "l",
      "e", "m", "e", "t", "r", "y", " ", "d", "a", "t", "a", " ", "i", "s",
      " ", "a", "v", "a", "i", "l", "a", "b", "l", "e", " ", "f", "o", "r",
      " ", "t", "h", "i", "s", " ", "s", "e", "s", "s", "i", "o", "n">>
NoLapDataStem ==
    <<"E", "r", "r", "o", "r", ":", " ", "N", "o", " ", "l", "a", "p", " ",
      "d", "a", "t", "a", " ", "f", "o", "u", "n", "d", " ", "f", "o", "r",
      " ">>
NoCompoundText ==
    <<"E", "r", "r", "o", "r", ":", " ", "T", "y", "r", "e", " ", "c", "o",
      "m", "p", "o", "u", "n", "d", " ", "d", "a", "t", "a", " ", "n", "o",
      "t", " ", "a", "v", "a", "i", "l", "a", "b", "l", "e", " ", "f", "o",
      "r", " ", "t", "h", "i", "s", " ", "s", "e", "s", "s", "i", "o", "n">>
CreatingStem ==
    <<"E", "r", "r", "o", "r", " ", "c", "r", "e", "a", "t", "i", "n", "g",
      " ", "t", "y", "r", "e", " ", "s", "t", "r", "a", "t", "e", "g", "y",
      " ", "v", "i", "s", "u", "a", "l", "i", "z", "a", "t", "i", "o", "n",
      ":", " ">>
CreatingHints ==
    <<"\n", "\n", "P", "l", "e", "a", "s", "e", " ", "c", "h", "e", "c",
      "k", ":", "\n", "-", " ", "Y", "e", "a", "r", " ", "a", "n", "d",
      " ", "r", "a", "c", "e", " ", "n", "a", "m", "e", " ", "a", "r", "e",
      " ", "c", "o", "r", "r", "e", "c", "t", "\n", "-", " ", "S", "e",
      "s", "s", "i", "o", "n", " ", "t", "y", "p", "e", " ", "i", "s", " ",
      "v", "a", "l", "i", "d", " ", "(", "R", " ", "f", "o", "r", " ", "r",
      "a", "c", "e", ")", "\n", "-", " ", "T", "y", "r", "e", " ", "d",
      "a", "t", "a", " ", "i", "s", " ", "a", "v", "a", "i", "l", "a", "b",
      "l", "e", " ", "f", "o", "r", " ", "t", "h", "i", "s", " ", "s", "e",
      "s", "s", "i", "o", "n">>
QualiTitleTail ==
    <<" ", "-", " ", "Q", "u", "a", "l", "i", "f", "y", "i", "n", "g", " ",
      "R", "e", "s", "u", "l", "t", "s">>
TyreTitleTail ==
    <<" ", "-", " ", "T", "y", "r", "e", " ", "S", "t", "r", "a", "t", "e",
      "g", "y", " ", "A", "n", "a", "l", "y", "s", "i", "s">>
QualiFileStem ==
    <<"f", "1", "_", "q", "u", "a", "l", "i", "f", "y", "i", "n", "g", "_">>
QualiFileTail ==
    <<"_", "t", "o", "p", "3", "_", "c", "o", "m", "p", "a", "r", "i", "s",
      "o", "n", ".", "p", "n", "g">>
TyreFileStem ==
    <<"f", "1", "_", "t", "y", "r", "e", "_", "s", "t", "r", "a", "t", "e",
      "g", "y", "_">>
PngTail ==
    <<".", "p", "n", "g">>
Monaco ==
    <<"M", "o", "n", "a", "c", "o">>
Monza ==
    <<"M", "o", "n", "z", "a">>
MaxEmptyText ==
    <<"m", "a", "x", "(", ")", " ", "a", "r", "g", " ", "i", "s", " ", "a",
      "n", " ", "e", "m", "p", "t", "y", " ", "s", "e", "q", "u", "e", "n",
      "c", "e">>
NoneTypeText ==
    <<"'", "N", "o", "n", "e", "T", "y", "p", "e", "'", " ", "o", "b", "j",
      "e", "c", "t", " ", "h", "a", "s", " ", "n", "o", " ", "a", "t", "t",
      "r", "i", "b", "u", "t", "e", " ">>
ExpectedStrText ==
    <<"s", "e", "q", "u", "e", "n", "c", "e", " ", "i", "t", "e", "m", " ",
      "0", ":", " ", "e", "x", "p", "e", "c", "t", "e", "d", " ", "s", "t",
      "r", " ", "i", "n", "s", "t", "a", "n", "c", "e">>
CannotConvertText ==
    <<"c", "a", "n", "n", "o", "t", " ", "c", "o", "n", "v", "e", "r", "t",
      " ", "f", "l", "o", "a", "t", " ", "N", "a", "N", " ", "t", "o", " ",
      "i", "n", "t", "e", "g", "e", "r">>

\* str(e) of the exceptions that can reach the two handlers
Exc(type, msg) == [type |-> type, msg |-> msg]

\* the arguments of a call as text: f"{year} {race} {session}"
ArgsText(call) == IntStr(call.year) \o <<" ">> \o call.race \o <<" ">> \o <<call.session>>

\* line 46
ErrNoResults(call) == NoResultsStem \o ArgsText(call)
\* line 49
ErrInsufficient(n) == InsufficientStem \o IntStr(n) \o InsufficientTail
\* line 90
ErrTelemetry(n) == TelemetryStem \o IntStr(n) \o <<".">>
\* line 261
ErrAnalyzing(e) == AnalyzingStem \o e.msg \o AnalyzingHints
\* line 289
ErrNoLapData(call) == NoLapDataStem \o ArgsText(call)
\* line 293
ErrNoCompound == NoCompoundText
\* line 464
ErrCreating(e) == CreatingStem \o e.msg \o CreatingHints

\* lines 185-187 and 424-426: how a success report begins
QualiSummaryHead(call) ==
    <<"\n">> \o IntStr(call.year) \o <<" ">> \o call.race \o QualiTitleTail
TyreSummaryHead(call) ==
    <<"\n">> \o IntStr(call.year) \o <<" ">> \o call.race \o TyreTitleTail

\* line 173
QualiFileName(call) ==
    QualiFileStem \o IntStr(call.year) \o <<"_">> \o call.race \o <<"_", call.session>>
    \o QualiFileTail
\* line 405
TyreFileName(call) ==
    TyreFileStem \o IntStr(call.year) \o <<"_">> \o call.race \o <<"_", call.session>>
    \o PngTail

(***************************************************************************)
(* What one invocation did: the value it returned or the exception that    *)
(* left it, the step that failed, the figures it opened and closed, what   *)
(* it drew, the files it wrote, and the data its report was built from.    *)
(***************************************************************************)
NoReport == [kind |-> "none"]

Outcome(ret, failure, opened, closed, drawn, written, report) ==
    [ret |-> ret, failure |-> failure, opened |-> opened, closed |-> closed,
     drawn |-> drawn, written |-> written, report |-> report]

\* an early "return f'Error: ...'" before anything is drawn
EarlyReturn(text, failure, opened) ==
    Outcome(Return(text), failure, opened, 0, <<>>, {}, NoReport)

\* a handler that lets the exception go on to the caller
CompareHandlerReraises(e) == Raise(e)

\* except Exception as e: return f"Error analyzing qualifying laps: ...",
\* lines 260-261
CompareHandler(e) == Return(ErrAnalyzing(e))

\* except Exception as e: return f"Error creating tyre strategy ...",
\* lines 463-464
TyreHandler(e) == Return(ErrCreating(e))

\* the results table of a session: its rows, or None
NoResults == [none |-> TRUE, rows |-> <<>>]
Results(rows) == [none |-> FALSE, rows |-> rows]

\* not hasattr(quali, 'results') or quali.results is None
\* or len(quali.results) == 0, line 45
ResultsMissing(results) == results.none \/ Len(results.rows) = 0

\* len(quali.results) < 3, line 48
MinDrivers == 3

\* two drivers taken for enough
TooFewDriversBelowTwo(results) == Len(results.rows) < 2

TooFewDrivers(results) == Len(results.rows) < MinDrivers

\* DataFrame.head(n)
HeadRows(rows, n) == SubSeq(rows, 1, IF Len(rows) < n THEN Len(rows) ELSE n)
Top10Rows == 10
Top3Rows == 3
\* len(telemetry_data) < 3, line 89
NeededTelemetry == 3

\* quali.laps.pick_driver(abbr) has rows; the LapTime of pick_fastest()
HasLaps(data, abbr) == abbr \notin data.no_laps
FastestLapTime(data, abbr) == data.fastest[abbr]

\* the first three drivers that have laps, whatever their place
TelemetryDataSubstitutes(data, top3) ==
    LET with_laps == SelectSeq(data.results.rows,
                               LAMBDA row : HasLaps(data, row.Abbreviation))
        first3 == HeadRows(with_laps, Len(top3))
    IN [i \in 1..Len(first3) |->
            [driver |-> first3[i].Abbreviation,
             lap_time |-> FastestLapTime(data, first3[i].Abbreviation)]]

\* lines 56-87: one entry per top-3 row whose driver has laps, in row order
TelemetryData(data, top3) ==
    LET with_laps == SelectSeq(top3, LAMBDA row : HasLaps(data, row.Abbreviation))
    IN [i \in 1..Len(with_laps) |->
            [driver |-> with_laps[i].Abbreviation,
             lap_time |-> FastestLapTime(data, with_laps[i].Abbreviation)]]

\* lines 105-163: the three plots, one trace per entry of telemetry_data,
\* labelled with the formatted lap time and styled by the entry's index
Traces(telemetry_data) ==
    [i \in 1..Len(telemetry_data) |->
        [driver |-> telemetry_data[i].driver, style |-> i - 1,
         label |-> format_lap_time(telemetry_data[i].lap_time)]]

\* lines 196-240: the rows of the top-10 table
TableRows(data, top10) ==
    [i \in 1..Len(top10) |->
        LET row == top10[i]
            lap_time == TableLapTime(HasLaps(data, row.Abbreviation),
                                     IF HasLaps(data, row.Abbreviation)
                                     THEN FastestLapTime(data, row.Abbreviation)
                                     ELSE None,
                                     row)
        IN [driver |-> row.Abbreviation, time_str |-> FormatTableTime(lap_time).text]]

\* the body of compare_qualifying_laps after the session is loaded, lines
\* 44-261; fail names the external call that raises, if any is reached
CompareBody(call, data, fail) ==
    IF ResultsMissing(data.results)
    THEN EarlyReturn(ErrNoResults(call), "no_results", 0)
    ELSE IF TooFewDrivers(data.results)
    THEN EarlyReturn(ErrInsufficient(Len(data.results.rows)), "insufficient_drivers", 0)
    ELSE
    LET top10 == HeadRows(data.results.rows, Top10Rows)
        top3 == HeadRows(data.results.rows, Top3Rows)
        telemetry_data == TelemetryData(data, top3)
        traces == Traces(telemetry_data)
        raised == {i \in 1..Len(traces) : traces[i].label.kind = "raise"}
        file == QualiFileName(call)
        Caught(e, step, opened, closed, drawn, written) ==
            Outcome(CompareHandler(e), step, opened, closed, drawn, written, NoReport)
    IN IF fail = "get_telemetry" /\ Len(telemetry_data) > 0
       THEN Caught(Exc("AttributeError", NoneTypeText), "get_telemetry", 0, 0, <<>>, {})
       ELSE IF Len(telemetry_data) < NeededTelemetry
       THEN EarlyReturn(ErrTelemetry(Len(telemetry_data)), "telemetry_missing", 0)
       ELSE IF raised # {}
       THEN Caught(Exc("ValueError", CannotConvertText), "format_lap_time",
                   1, 0, <<>>, {})
       ELSE IF fail = "tight_layout"
       THEN Caught(Exc("RuntimeError", <<"t", "i", "g", "h", "t">>), "tight_layout",
                   1, 0, traces, {})
       ELSE IF fail = "makedirs"
       THEN Caught(Exc("PermissionError", <<"d", "e", "n", "i", "e", "d">>), "makedirs",
                   1, 0, traces, {})
       ELSE IF fail = "summary"
       THEN Caught(Exc("TypeError", <<"f", "o", "r", "m", "a", "t">>), "summary",
                   1, 1, traces, {file})
       ELSE Outcome(Return(QualiSummaryHead(call)), "none", 1, 1, traces, {file},
                    [kind |-> "quali", telemetry_data |-> telemetry_data,
                     table |-> TableRows(data, top10), path |-> file])

\* the Compound cell of a lap the provider has no tyre data for (None/NaN),
\* which is no str
NullCompound == "<null>"

\* ', '.join(sorted(compounds_used)), line 432: raises TypeError when a
\* compound is not a str
JoinRaises(compounds_used) == NullCompound \in compounds_used

\* drivers sorted by points, lowest first
PointsOrdersAscending(results) ==
    {p \in [1..Len(results) -> 1..Len(results)] :
        /\ \A i, j \in 1..Len(results) : i # j => p[i] # p[j]
        /\ \A i, j \in 1..Len(results) :
               i < j => results[p[i]].Points <= results[p[j]].Points}

\* laps_tyre.pick_driver(driver): the rows of one driver, in table order
PickDriver(laps, driver) == SelectSeq(laps, LAMBDA r : r.Driver = driver)

\* the orders results.sort_values('Points', ascending=False) can give: by
\* points, highest first, rows of equal points in either order
PointsOrders(results) ==
    {p \in [1..Len(results) -> 1..Len(results)] :
        /\ \A i, j \in 1..Len(results) : i # j => p[i] # p[j]
        /\ \A i, j \in 1..Len(results) :
               i < j => results[p[i]].Points >= results[p[j]].Points}

\* every driver of the results table charted, with laps or without
FinishedDriversUnfiltered(results, order, laps) ==
    [i \in 1..Len(results) |-> results[order[i]].Abbreviation]

\* lines 304-307: the sorted drivers that have a row in the lap table
FinishedDrivers(results, order, laps) ==
    LET driver_order == [i \in 1..Len(results) |-> results[order[i]].Abbreviation]
    IN SelectSeq(driver_order, LAMBDA d : \E i \in 1..Len(laps) : laps[i].Driver = d)

\* lines 321-344
DriverData(finished_drivers, laps) ==
    [i \in 1..Len(finished_drivers) |->
        [driver |-> finished_drivers[i],
         stints |-> SegmentStints(PickDriver(laps, finished_drivers[i]))]]

\* the body of visualize_tyre_strategy after the session is loaded, lines
\* 285-464; order is the order sort_values gave, fail the external call
\* that raises, if any is reached
TyreBody(call, data, order, fail) ==
    IF Len(data.laps) = 0
    THEN EarlyReturn(ErrNoLapData(call), "no_lap_data", 0)
    ELSE IF ~data.has_compound
    THEN EarlyReturn(ErrNoCompound, "no_compound", 0)
    ELSE
    LET Caught(e, step, opened, closed, drawn, written) ==
            Outcome(TyreHandler(e), step, opened, closed, drawn, written, NoReport)
    IN IF data.results.none
       THEN Caught(Exc("AttributeError", NoneTypeText), "sort_values", 1, 0, <<>>, {})
       ELSE
       LET finished_drivers == FinishedDrivers(data.results.rows, order, data.laps)
           compounds_used == {data.laps[i].Compound : i \in 1..Len(data.laps)}
           driver_data == DriverData(finished_drivers, data.laps)
           bars == [i \in 1..Len(driver_data) |->
                       [driver |-> driver_data[i].driver,
                        stints |-> driver_data[i].stints,
                        left_pos |-> BarTotal(driver_data[i].stints)]]
           totals == {bars[i].left_pos : i \in 1..Len(bars)}
           file == TyreFileName(call)
       IN IF fail = "pick_driver" /\ Len(finished_drivers) > 0
          THEN Caught(Exc("KeyError", <<"D", "r", "i", "v", "e", "r">>), "pick_driver",
                      1, 0, <<>>, {})
          ELSE IF totals = {}
          THEN Caught(Exc("ValueError", MaxEmptyText), "max", 1, 0, bars, {})
          ELSE IF fail = "tight_layout"
          THEN Caught(Exc("RuntimeError", <<"t", "i", "g", "h", "t">>), "tight_layout",
                      1, 0, bars, {})
          ELSE IF fail = "makedirs"
          THEN Caught(Exc("PermissionError", <<"d", "e", "n", "i", "e", "d">>),
                      "makedirs", 1, 0, bars, {})
          ELSE IF JoinRaises(compounds_used)
          THEN Caught(Exc("TypeError", ExpectedStrText), "join", 1, 1, bars, {file})
          ELSE IF fail = "summary"
          THEN Caught(Exc("TypeError", <<"f", "o", "r", "m", "a", "t">>), "summary",
                      1, 1, bars, {file})
          ELSE Outcome(Return(TyreSummaryHead(call)), "none", 1, 1, bars, {file},
                       [kind |-> "tyre", finished_drivers |-> finished_drivers,
                        driver_data |-> driver_data,
                        max_laps |-> CHOOSE x \in totals : \A y \in totals : x >= y,
                        compounds_used |-> compounds_used, path |-> file])

(***************************************************************************)
(* State.                                                                  *)
(*   fmt  the last lap time formatted and what the formatter gave          *)
(*   seg  the last driver's lap records segmented and the stints found     *)
(*   pc       where the tool server is: idle, called (a tool was called),  *)
(*            loaded (its session is loaded), returned                     *)
(*   call     the tool called and its arguments                            *)
(*   session  what the timing-data provider loaded for the call            *)
(*   run      what the invocation did (Outcome)                            *)
(*   figures  the number of pyplot figures open in the process             *)
(*   files    the image files in the f1_visualizations directory           *)
(***************************************************************************)
VARIABLES fmt, seg, pc, call, session, run, figures, files
tool == <<pc, call, session, run, figures, files>>
vars == <<fmt, seg, pc, call, session, run, figures, files>>

NoCall == [op |-> "none"]
NoSession == [kind |-> "none"]
NoRun == [failure |-> "pending"]
ToolIdle == /\ pc = "idle" /\ call = NoCall /\ session = NoSession /\ run = NoRun
            /\ figures = 0 /\ files = {}

FmtIdle == [site |-> "none"]
SegIdle == [done |-> FALSE, laps |-> <<>>, stint_info |-> <<>>, left_pos |-> 0]

(***************************************************************************)
(* The formatters applied to the values a lap time can take.               *)
(***************************************************************************)
Bases == {0, 83000, 3900000}
SubMs == {0, 999}
Durations == {Timedelta(b + m, u) : b \in Bases, m \in 0..MaxMs, u \in SubMs}
LapTimeValues == Durations \cup {NaT, None, Str(NoTimeText)}
QCells == {Absent, None, NaT, Timedelta(83456, 0), Timedelta(64002, 0)}

\* the legend label of one plotted driver, line 109
FormatLegend ==
    /\ fmt.site = "input" /\ fmt.has_laps
    /\ fmt' = [fmt EXCEPT !.site = "legend", !.out = format_lap_time(fmt.lap_time)]
    /\ UNCHANGED <<seg, tool>>

\* the Best Lap cell of one row of the top-10 table, lines 203-229
FormatTableRow ==
    /\ fmt.site = "input"
    /\ LET lap_time == TableLapTime(fmt.has_laps, fmt.lap_time, fmt.row)
       IN fmt' = [fmt EXCEPT !.site = "table", !.lap_time = lap_time,
                             !.out = FormatTableTime(lap_time)]
    /\ UNCHANGED <<seg, tool>>

\* the inputs: a driver with laps and the LapTime of the fastest one, or a
\* driver without laps and the Q3, Q2, Q1 cells of the result row
FmtInputs ==
    {[site |-> "input", has_laps |-> TRUE, lap_time |-> v, row |-> Absent, out |-> None]
         : v \in LapTimeValues}
    \cup {[site |-> "input", has_laps |-> FALSE, lap_time |-> None,
           row |-> [Q3 |-> q3, Q2 |-> q2, Q1 |-> q1], out |-> None]
         : q3 \in QCells, q2 \in QCells, q1 \in QCells}

InitFmt == fmt \in FmtInputs /\ seg = SegIdle /\ ToolIdle
NextFmt == FormatLegend \/ FormatTableRow
SpecFmt == InitFmt /\ [][NextFmt]_vars

(***************************************************************************)
(* The segmentation applied to the lap records one driver can have: any    *)
(* order, distinct lap numbers, any stint identifier and compound per lap. *)
(***************************************************************************)
StintIds == {1, 2}
SegCompounds == {"SOFT", "MEDIUM"}
LapRecords == [LapNumber : 1..MaxLapNumber, Stint : StintIds, Compound : SegCompounds]
DriverLapSets ==
    UNION {{laps \in [1..n -> LapRecords] :
                \A i, j \in 1..n : i # j => laps[i].LapNumber # laps[j].LapNumber}
           : n \in 0..MaxRecords}

\* one driver of the loop of lines 323-344, with the bar of lines 349-366
Segment ==
    /\ ~seg.done
    /\ seg' = [seg EXCEPT !.done = TRUE, !.stint_info = SegmentStints(seg.laps),
                          !.left_pos = BarTotal(SegmentStints(seg.laps))]
    /\ UNCHANGED <<fmt, tool>>

InitSeg == /\ fmt = FmtIdle
           /\ seg \in {[done |-> FALSE, laps |-> laps, stint_info |-> <<>>, left_pos |-> 0]
                           : laps \in DriverLapSets}
           /\ ToolIdle
NextSeg == Segment
SpecSeg == InitSeg /\ [][NextSeg]_vars

(***************************************************************************)
(* The tool server: a caller calls one of the two tools, the tool loads    *)
(* the session from the timing-data provider and runs to its return.  One  *)
(* call runs at a time.                                                    *)
(***************************************************************************)
Ops == {"compare_qualifying_laps", "visualize_tyre_strategy"}
Races == {Monaco, Monza}
Season == 2024
\* session: str = "Q" (line 23) and session: str = "R" (line 264)
DefaultSession(op) == IF op = "compare_qualifying_laps" THEN "Q" ELSE "R"

\* the sessions the provider can hand to compare_qualifying_laps: a results
\* table of the first n drivers (or none), at most one of them without
\* laps, the fastest laps a fixed step apart
DriverNames == <<"VER", "LEC", "NOR", "PIA">>
PoleTimes == {83456, 64002}
QRows == {[Q3 |-> Timedelta(83456, 0), Q2 |-> Timedelta(83999, 0), Q1 |-> Timedelta(84500, 0)],
          [Q3 |-> None, Q2 |-> Timedelta(83999, 0), Q1 |-> Timedelta(84500, 0)],
          [Q3 |-> NaT, Q2 |-> NaT, Q1 |-> Timedelta(84500, 0)],
          [Q3 |-> None, Q2 |-> None, Q1 |-> None]}
QualiResults(n, q) ==
    [i \in 1..n |-> [Abbreviation |-> DriverNames[i], Q3 |-> q.Q3, Q2 |-> q.Q2, Q1 |-> q.Q1]]
Fastest(pole) ==
    [d \in {DriverNames[i] : i \in 1..Len(DriverNames)} |->
        Timedelta(pole + 111 * ((CHOOSE i \in 1..Len(DriverNames) : DriverNames[i] = d) - 1), 0)]
QualiSessions ==
    {[kind |-> "quali", results |-> NoResults, no_laps |-> {}, fastest |-> Fastest(83456)]}
    \cup {[kind |-> "quali", results |-> Results(QualiResults(n, q)), no_laps |-> nl,
           fastest |-> Fastest(pole)]
              : n \in 0..Len(DriverNames), q \in QRows, pole \in PoleTimes,
                nl \in {{}} \cup {{DriverNames[i]} : i \in 1..Len(DriverNames)}}

\* the sessions the provider can hand to visualize_tyre_strategy: a lap
\* table for three drivers, of whom NOR has no row in the results table;
\* a compound can be one the tool has no colour for, or missing
Lap(n, s, c) == [LapNumber |-> n, Stint |-> s, Compound |-> c]
TyreLapOptions == {<<>>,
                   <<Lap(1, 1, "SOFT")>>,
                   <<Lap(2, 1, "SOFT"), Lap(1, 1, "SOFT"), Lap(3, 2, "MEDIUM")>>,
                   <<Lap(1, 1, "SOFT"), Lap(3, 1, "SOFT")>>,
                   <<Lap(1, 1, "HYPERSOFT")>>,
                   <<Lap(1, 1, NullCompound)>>}
OfDriver(d, laps) ==
    [i \in 1..Len(laps) |-> [Driver |-> d, LapNumber |-> laps[i].LapNumber,
                             Stint |-> laps[i].Stint, Compound |-> laps[i].Compound]]
Points(d, p) == [Abbreviation |-> d, Points |-> p]
TyreResults == {NoResults, Results(<<>>), Results(<<Points("LEC", 25)>>),
                Results(<<Points("VER", 25), Points("LEC", 18)>>),
                Results(<<Points("VER", 18), Points("LEC", 25)>>),
                Results(<<Points("VER", 0), Points("LEC", 0)>>)}
TyreSessions ==
    {[kind |-> "tyre", results |-> r, has_compound |-> hc,
      laps |-> OfDriver("VER", v) \o OfDriver("NOR", n) \o OfDriver("LEC", l)]
         : r \in TyreResults, hc \in BOOLEAN, v \in TyreLapOptions, l \in TyreLapOptions,
           n \in {<<>>, <<Lap(1, 1, "HARD")>>}}

\* the external calls of each body that can raise
CompareFails == {"none", "get_telemetry", "tight_layout", "makedirs", "summary"}
TyreFails == {"none", "pick_driver", "tight_layout", "makedirs", "summary"}

\* a caller calls a tool; no call is made while one runs
CallTool ==
    /\ pc \in {"idle", "returned"}
    /\ figures < MaxFigures
    /\ \E op \in Ops, race \in Races :
           call' = [op |-> op, year |-> Season, race |-> race, session |-> DefaultSession(op)]
    /\ pc' = "called"
    /\ session' = NoSession
    /\ run' = NoRun
    /\ UNCHANGED <<fmt, seg, figures, files>>

\* fastf1.get_session(...) and .load(...), lines 41-42 and 282-283: the
\* provider hands over a session, or raises and the handler returns
LoadSession ==
    /\ pc = "called"
    /\ \/ /\ session' \in (IF call.op = "compare_qualifying_laps"
                          THEN QualiSessions ELSE TyreSessions)
          /\ pc' = "loaded"
          /\ UNCHANGED run
       \/ /\ run' = Outcome(IF call.op = "compare_qualifying_laps"
                            THEN CompareHandler(Exc("ValueError", <<"l", "o", "a", "d">>))
                            ELSE TyreHandler(Exc("ValueError", <<"l", "o", "a", "d">>)),
                            "get_session", 0, 0, <<>>, {}, NoReport)
          /\ pc' = "returned"
          /\ UNCHANGED session
    /\ UNCHANGED <<fmt, seg, call, figures, files>>

\* what an invocation leaves behind: its lasting effects on the process
\* and on the output directory
Finish(outcome) ==
    /\ run' = outcome
    /\ figures' = figures + outcome.opened - outcome.closed
    /\ files' = files \cup outcome.written
    /\ pc' = "returned"
    /\ UNCHANGED <<fmt, seg, call, session>>

\* lines 44-261
compare_qualifying_laps ==
    /\ pc = "loaded" /\ call.op = "compare_qualifying_laps"
    /\ \E fail \in CompareFails : Finish(CompareBody(call, session, fail))

\* lines 285-464
visualize_tyre_strategy ==
    /\ pc = "loaded" /\ call.op = "visualize_tyre_strategy"
    /\ \E fail \in TyreFails :
           \E order \in PointsOrders(session.results.rows) :
               Finish(TyreBody(call, session, order, fail))

Init == fmt = FmtIdle /\ seg = SegIdle /\ ToolIdle
Next == CallTool \/ LoadSession \/ compare_qualifying_laps \/ visualize_tyre_strategy
Spec == Init /\ [][Next]_vars

(***************************************************************************)
(* Claims about the two tools, under Spec.                                 *)
(***************************************************************************)
ErrorColon ==
    <<"E", "r", "r", "o", "r", ":">>
ErrorWord ==
    <<"E", "r", "r", "o", "r">>

StartsWith(text, prefix) ==
    Len(text) >= Len(prefix) /\ SubSeq(text, 1, Len(prefix)) = prefix

Returned == pc = "returned"
Failed == Returned /\ run.failure # "none"
\* the conditions the tools look for themselves, and the steps that raise
Detected == {"no_results", "insufficient_drivers", "telemetry_missing",
             "no_lap_data", "no_compound"}
NothingDrawnOrWritten == run.opened = 0 /\ run.drawn = <<>> /\ run.written = {}

\* C1 as claimed: whatever fails in an invocation of either tool (session
\* fetch, data selection, rendering, file write, summary building), the
\* invocation returns a text that begins with "Error:" and raises nothing.
C1_FailureReturnsErrorColon ==
    Failed => run.ret.kind = "return" /\ StartsWith(run.ret.text, ErrorColon)

\* C1 as amended: whatever fails, the invocation raises nothing and returns
\* a text that begins with "Error": "Error:" for the conditions the tool
\* detects itself, "Error analyzing qualifying laps: " or "Error creating
\* tyre strategy visualization: " for an exception raised at any step.
C1_FailureReturnsErrorText ==
    Failed =>
        /\ run.ret.kind = "return"
        /\ StartsWith(run.ret.text, ErrorWord)
        /\ IF run.failure \in Detected THEN StartsWith(run.ret.text, ErrorColon)
           ELSE IF call.op = "compare_qualifying_laps"
           THEN StartsWith(run.ret.text, AnalyzingStem)
           ELSE StartsWith(run.ret.text, CreatingStem)

C1_Witness ==
    /\ Returned /\ run.failure = "makedirs" /\ call.op = "compare_qualifying_laps"
    /\ run.ret.kind = "return" /\ StartsWith(run.ret.text, AnalyzingStem)

\* C2: too little data is found out before any figure is made:
\* compare_qualifying_laps returns "No results found" for a results table
\* that is absent or empty and "Insufficient drivers" for one of 1 or 2
\* rows; visualize_tyre_strategy returns an error report for an empty lap
\* table and for a lap table without the Compound column; in each case
\* nothing is drawn and nothing is written.
C2_TooLittleDataReportedBeforeDrawing ==
    /\ (Returned /\ session.kind = "quali" /\ (session.results.none \/ Len(session.results.rows) = 0))
           => /\ run.ret = Return(NoResultsStem \o ArgsText(call))
              /\ NothingDrawnOrWritten
    /\ (Returned /\ session.kind = "quali" /\ ~session.results.none
            /\ Len(session.results.rows) \in {1, 2})
           => /\ run.ret.kind = "return" /\ StartsWith(run.ret.text, InsufficientStem)
              /\ run.ret.text[Len(InsufficientStem) + 1] = Digits[Len(session.results.rows) + 1]
              /\ NothingDrawnOrWritten
    /\ (Returned /\ session.kind = "tyre" /\ (Len(session.laps) = 0 \/ ~session.has_compound))
           => /\ run.ret.kind = "return" /\ StartsWith(run.ret.text, ErrorColon)
              /\ NothingDrawnOrWritten

C2_Witness ==
    /\ Returned /\ session.kind = "quali" /\ Len(session.results.rows) = 2
    /\ StartsWith(run.ret.text, InsufficientStem) /\ figures = 0 /\ files = {}

\* no driver of the results table has a row in the lap table
NoDriverToChart ==
    \A i \in 1..Len(session.results.rows) : \A j \in 1..Len(session.laps) :
        session.laps[j].Driver # session.results.rows[i].Abbreviation
\* the external calls that fail on their own account
Injected == {"get_session", "get_telemetry", "pick_driver", "tight_layout",
             "makedirs", "summary"}
SingleLapDriversHaveOneStint ==
    (Returned /\ run.report.kind = "tyre") =>
        \A i \in 1..Len(run.report.driver_data) :
            LET d == run.report.driver_data[i]
                rows == {j \in 1..Len(session.laps) : session.laps[j].Driver = d.driver}
            IN Cardinality(rows) = 1 =>
                   /\ Len(d.stints) = 1 /\ d.stints[1].laps_count = 1
                   /\ \A j \in rows : d.stints[1].start_lap = session.laps[j].LapNumber

CompoundCategories == {"SOFT", "MEDIUM", "HARD", "INTERMEDIATE", "WET", "UNKNOWN"}
\* the failures that have nothing to do with the compounds
NotOfCompounds == Injected \cup Detected \cup {"max", "sort_values"}
LapCompounds == {session.laps[i].Compound : i \in 1..Len(session.laps)}

\* C11: every stint charted carries a compound of SOFT, MEDIUM, HARD,
\* INTERMEDIATE, WET, UNKNOWN: a lap whose compound is missing or not
\* recognised gives a stint, and a compound-usage entry of the report,
\* labelled UNKNOWN, never a null, and the invocation still ends with the
\* success report.
C11_CompoundsAreCategories ==
    (Returned /\ session.kind = "tyre") =>
        /\ \A i \in 1..Len(run.drawn) : \A k \in 1..Len(run.drawn[i].stints) :
               run.drawn[i].stints[k].compound \in CompoundCategories
        /\ run.report.kind = "tyre" => run.report.compounds_used \subseteq CompoundCategories
        /\ (run.failure \notin NotOfCompounds /\ ~(LapCompounds \subseteq CompoundCategories))
               => run.ret.kind = "return" /\ ~StartsWith(run.ret.text, ErrorWord)

\* the drivers of the bars drawn, top to bottom
Charted == [i \in 1..Len(run.drawn) |-> run.drawn[i].driver]
DriversWithLaps == {session.laps[j].Driver : j \in 1..Len(session.laps)}
ResultsDrivers ==
    {session.results.rows[i].Abbreviation : i \in 1..Len(session.results.rows)}
PointsOfDriver(d) ==
    session.results.rows[CHOOSE i \in 1..Len(session.results.rows) :
                             session.results.rows[i].Abbreviation = d].Points

C13_NoFigureLeftOpen ==
    /\ Returned => run.opened = run.closed
    /\ pc \in {"idle", "returned"} => figures = 0

\* the image file of a call: a function of the tool, year, event, session
ImageOf(c) ==
    IF c.op = "compare_qualifying_laps" THEN QualiFileName(c) ELSE TyreFileName(c)
Calls ==
    {[op |-> op, year |-> Season, race |-> race, session |-> DefaultSession(op)]
         : op \in Ops, race \in Races}

\* C14: an invocation writes its image file if and only if it returns the
\* success report: a successful one has written exactly one image, named
\* after tool, year, event and session type only (the two tools never
\* write the same file, and a repeated call overwrites its file), and one
\* that returns an error report has written none.
C14_ImageWrittenIffSuccess ==
    /\ \A c, d \in Calls : c.op # d.op => ImageOf(c) # ImageOf(d)
    /\ files \subseteq {ImageOf(c) : c \in Calls}
    /\ Returned =>
           /\ run.failure = "none" => run.written = {ImageOf(call)}
           /\ run.failure # "none" => run.written = {}

\* the drivers of the first three rows of the results table
FirstThree == [i \in 1..3 |-> session.results.rows[i].Abbreviation]
FirstThreeWithLaps == {i \in 1..3 : FirstThree[i] \notin session.no_laps}

\* the success report comes with the first three rows plotted, in result
\* order, with line-style index 0, 1, 2
SuccessPlotsFirstThree ==
    (Returned /\ run.report.kind = "quali") =>
        /\ Len(run.drawn) = 3
        /\ \A i \in 1..3 : /\ run.drawn[i].driver = FirstThree[i]
                            /\ run.drawn[i].style = i - 1
        /\ FirstThreeWithLaps = 1..3
\* one of the first three drivers has no laps
FirstThreeLackLaps ==
    /\ Returned /\ session.kind = "quali" /\ Len(session.results.rows) >= 3
    /\ FirstThreeWithLaps # 1..3

\* C16 as claimed: whenever compare_qualifying_laps returns the success
\* report, the telemetry plotted is that of exactly the first three rows of
\* the results table, in result order, with line-style index 0, 1, 2; if
\* one of those three drivers has no laps, the tool returns the "Could not
\* extract telemetry for 3 drivers" error and never plots the fourth or a
\* later driver in its place.
C16_NoLapsGivesTelemetryError ==
    /\ SuccessPlotsFirstThree
    /\ FirstThreeLackLaps =>
           /\ run.drawn = <<>> /\ run.report = NoReport
           /\ run.ret = Return(ErrTelemetry(Cardinality(FirstThreeWithLaps)))

\* C16 as amended: the same, except that when one of the three has no laps
\* the error returned is the "Could not extract telemetry" one only if no
\* call of the loop raised before the count is tested; if one did, the
\* handler's error report is returned.  In both cases nothing is plotted
\* and no later driver is taken instead.
C16_PlottedAreFirstThreeRows ==
    /\ SuccessPlotsFirstThree
    /\ FirstThreeLackLaps =>
           /\ run.drawn = <<>> /\ run.written = {} /\ run.report = NoReport
           /\ run.ret.kind = "return" /\ StartsWith(run.ret.text, ErrorWord)
           /\ IF run.failure = "get_telemetry"
              THEN StartsWith(run.ret.text, AnalyzingStem)
              ELSE run.ret = Return(ErrTelemetry(Cardinality(FirstThreeWithLaps)))

C16_Witness ==
    /\ Returned /\ session.kind = "quali" /\ Len(session.results.rows) = 4
    /\ session.no_laps = {"LEC"}
    /\ run.failure = "telemetry_missing" /\ run.ret = Return(ErrTelemetry(2))

(***************************************************************************)
(* Claims about the formatters, under SpecFmt.                             *)
(***************************************************************************)
Formatted == fmt.site \in {"legend", "table"}

\* a missing duration: Python's None, or the NaT of a timedelta column
IsMissing(v) == v.kind \in {"None", "NaT", "absent"}

\* the value the formatter was applied to came from a missing duration
FormattedMissing ==
    /\ Formatted
    /\ IF fmt.has_laps THEN IsMissing(fmt.lap_time)
       ELSE IsMissing(fmt.row.Q3) /\ IsMissing(fmt.row.Q2) /\ IsMissing(fmt.row.Q1)

\* C3: wherever a lap time is formatted for display (the legend helper and
\* the top-10 table, a driver whose Q3, Q2 and Q1 are all missing included),
\* a missing lap duration is shown as the text "No Time".
C3_MissingShownAsNoTime == FormattedMissing => fmt.out = Return(NoTimeText)

\* "{minutes}:{seconds}.{milliseconds}" of a whole number of milliseconds:
\* minutes unpadded, exactly two digits of seconds, exactly three of ms
TwoDigits(n) == <<Digits[(n \div 10) + 1], Digits[(n % 10) + 1]>>
ThreeDigits(n) == <<Digits[(n \div 100) + 1]>> \o TwoDigits(n % 100)
ExpectedText(total_ms) ==
    IntStr(total_ms \div 60000) \o <<":">> \o TwoDigits((total_ms % 60000) \div 1000)
    \o <<".">> \o ThreeDigits(total_ms % 1000)

\* C4: a present duration of total_ms whole milliseconds is formatted as
\* minutes (total_ms div 60000, unpadded, never rolled over into hours),
\* ":", seconds ((total_ms mod 60000) div 1000, two digits), ".",
\* milliseconds (total_ms mod 1000, three digits).
C4_MinutesSecondsMillis ==
    (Formatted /\ fmt.lap_time.kind = "Timedelta")
        => fmt.out = Return(ExpectedText(fmt.lap_time.ms))

\* C5: formatting never fails: a value that is no duration, or a
\* duration-typed value with no valid time, comes back as its raw string
\* (None apart, whose text C3 fixes) and nothing is raised.
C5_FormattingNeverFails ==
    (Formatted /\ fmt.lap_time.kind \in {"None", "NaT", "str"})
        => /\ fmt.out.kind = "return"
           /\ fmt.lap_time.kind # "None" => fmt.out.text = StrOf(fmt.lap_time)

\* the first of Q3, Q2, Q1 that is not missing, 'No Time' when all are
FirstAvailable(row) ==
    IF ~IsMissing(row.Q3) THEN row.Q3
    ELSE IF ~IsMissing(row.Q2) THEN row.Q2
    ELSE IF ~IsMissing(row.Q1) THEN row.Q1
    ELSE Str(NoTimeText)

\* C15: in the top-10 table a driver with a lap is shown with the time of
\* the fastest lap; a driver without laps is shown with the first
\* available of Q3, Q2, Q1 of the result row (a later one only when every
\* earlier one is missing), and with "No Time" when all three are missing.
C15_FastestLapElseFirstOfQ3Q2Q1 ==
    fmt.site = "table" =>
        IF fmt.has_laps THEN fmt.out = FormatTableTime(fmt.lap_time)
        ELSE /\ fmt.lap_time = FirstAvailable(fmt.row)
             /\ fmt.out = FormatTableTime(FirstAvailable(fmt.row))

(***************************************************************************)
(* Claims about the segmentation, under SpecSeg.                           *)
(***************************************************************************)
LapNumbersOf(laps) == {laps[i].LapNumber : i \in 1..Len(laps)}
StintIdsOf(laps) == {laps[i].Stint : i \in 1..Len(laps)}
LapNumbersOfStint(laps, s) == {laps[i].LapNumber : i \in {j \in 1..Len(laps) : laps[j].Stint = s}}
MinOf(S) == CHOOSE x \in S : \A y \in S : x <= y
MaxOf(S) == CHOOSE x \in S : \A y \in S : x >= y
GapFree(S) == S = {} \/ MaxOf(S) - MinOf(S) + 1 = Cardinality(S)
StintRange(st) == st.start_lap..(st.start_lap + st.laps_count - 1)

\* the lap numbers of the driver are consecutive, and the stint identifier
\* never decreases from a lap to a later one
ConsecutiveLapsInStintOrder(laps) ==
    /\ GapFree(LapNumbersOf(laps))
    /\ \A i, j \in 1..Len(laps) :
           laps[i].LapNumber < laps[j].LapNumber => laps[i].Stint <= laps[j].Stint

\* the lap numbers of each stint are consecutive
EachStintGapFree(laps) == \A s \in StintIdsOf(laps) : GapFree(LapNumbersOfStint(laps, s))

StintsSortedContiguousCovering(laps, stints) ==
    /\ \A k \in 1..(Len(stints) - 1) :
           /\ stints[k].start_lap <= stints[k + 1].start_lap
           /\ stints[k + 1].start_lap = stints[k].start_lap + stints[k].laps_count
    /\ \A n \in LapNumbersOf(laps) :
           Cardinality({k \in 1..Len(stints) : n \in StintRange(stints[k])}) = 1
    /\ \A k \in 1..Len(stints) : StintRange(stints[k]) \subseteq LapNumbersOf(laps)

\* C6 as claimed: for every driver's lap records, the stints are sorted by
\* start_lap, each starts where the one before ends, and their lap ranges
\* cover the driver's lap numbers exactly once, with no gap.
C6_AnyRecordsContiguous ==
    seg.done => StintsSortedContiguousCovering(seg.laps, seg.stint_info)

\* C6 as amended: the same, for lap records whose lap numbers are
\* consecutive and whose stint identifier never decreases with the lap number.
C6_ContiguousWhenWellFormed ==
    (seg.done /\ ConsecutiveLapsInStintOrder(seg.laps))
        => StintsSortedContiguousCovering(seg.laps, seg.stint_info)

C6_Witness ==
    /\ seg.done /\ ConsecutiveLapsInStintOrder(seg.laps)
    /\ Len(seg.laps) = 3 /\ Len(seg.stint_info) = 2
    /\ seg.laps[1].LapNumber > seg.laps[2].LapNumber

\* C7 as claimed: for every driver, the sum of laps_count over the stints
\* (the total printed at the end of the bar) is the number of distinct lap
\* numbers in the driver's lap records.
C7_AnyRecordsSumIsLapCount ==
    seg.done => seg.left_pos = Cardinality(LapNumbersOf(seg.laps))

\* C7 as amended: the same, for lap records in which the lap numbers of
\* each stint are consecutive.
C7_SumIsLapCountWhenGapFree ==
    (seg.done /\ EachStintGapFree(seg.laps))
        => seg.left_pos = Cardinality(LapNumbersOf(seg.laps))

C7_Witness ==
    /\ seg.done /\ EachStintGapFree(seg.laps)
    /\ Len(seg.stint_info) = 2 /\ seg.left_pos = 3

ExampleLaps == <<[LapNumber |-> 1, Stint |-> 1, Compound |-> "SOFT"],
                 [LapNumber |-> 2, Stint |-> 1, Compound |-> "SOFT"],
                 [LapNumber |-> 3, Stint |-> 2, Compound |-> "MEDIUM"]>>
ExampleStints == <<[start_lap |-> 1, laps_count |-> 2, compound |-> "SOFT"],
                   [start_lap |-> 3, laps_count |-> 1, compound |-> "MEDIUM"]>>

\* C8: one stint per distinct stint identifier, in ascending identifier
\* order, with start_lap the least lap number of the group, laps_count the
\* greatest minus the least plus one, and compound that of the group's
\* lowest-numbered lap; the three laps of the example give its two stints.
C8_OneStintPerIdentifier ==
    seg.done =>
        /\ Len(seg.stint_info) = Cardinality(StintIdsOf(seg.laps))
        /\ \A s \in StintIdsOf(seg.laps) :
               LET k == Cardinality({t \in StintIdsOf(seg.laps) : t < s}) + 1
                   numbers == LapNumbersOfStint(seg.laps, s)
                   first == CHOOSE i \in 1..Len(seg.laps) :
                                seg.laps[i].Stint = s /\ seg.laps[i].LapNumber = MinOf(numbers)
               IN /\ seg.stint_info[k].start_lap = MinOf(numbers)
                  /\ seg.stint_info[k].laps_count = MaxOf(numbers) - MinOf(numbers) + 1
                  /\ seg.stint_info[k].compound = seg.laps[first].Compound
        /\ seg.laps = ExampleLaps => seg.stint_info = ExampleStints

C8_Witness == seg.done /\ seg.laps = ExampleLaps /\ seg.stint_info = ExampleStints

\* the orderings of the same lap records
Orderings(laps) ==
    {p \in [1..Len(laps) -> {laps[i] : i \in 1..Len(laps)}] :
         \A i, j \in 1..Len(laps) : i # j => p[i] # p[j]}

\* C9: every ordering of the same lap records of a driver gives the same
\* sequence of stints (same start_lap, laps_count and compound, same order).
C9_OrderingInvariance ==
    seg.done => \A p \in Orderings(seg.laps) : SegmentStints(p) = seg.stint_info

C9_Witness ==
    /\ seg.done /\ Len(seg.laps) = 3
    /\ seg.laps[1].LapNumber = 3 /\ seg.laps[2].LapNumber = 1 /\ seg.laps[3].LapNumber = 2
    /\ seg.laps[1].Stint = seg.laps[2].Stint
    /\ seg.laps[1].Compound # seg.laps[2].Compound
====
